---- MODULE Spec2Model ----
(***************************************************************************)
(* Model of skuf's dependency module: the registry of producers            *)
(* (skuf/dependency/registry.py), the classifier                           *)
(* (skuf/dependency/inspector.py) and the injection wrappers               *)
(* (skuf/dependency/wrapper.py).                                           *)
(***************************************************************************)
EXTENDS Integers, Sequences, FiniteSets, TLC

(***************************************************************************)
(* Bounds of the model.                                                    *)
(***************************************************************************)
\* objects a producer may construct in one behaviour
MaxObjs == 2

(***************************************************************************)
(* The universe: keys, pre-built instances, user callables, and the class  *)
(* of object each of them stands for.                                      *)
(***************************************************************************)
Keys == {"K1", "K2"}

None == "None"

Instances == {"v1", "v2"}

\* a pre-built asynchronous scoped resource, registered as an instance
SharedResource == "v3"

Callables == {"f1", "cmf", "acmf", "agf", "hybf"}

\* capability markers an object may expose
SyncMarkers == {"__enter__", "__exit__"}
AsyncMarkers == {"__aenter__", "__aexit__"}
GenMarkers == {"__aiter__", "__anext__"}

\* markers of the objects each source yields: a pre-built instance, the object
\* a user callable returns, or the object the key's own constructor builds
SrcMarkers(src) ==
    CASE src = "v1" -> {}
      [] src = "v2" -> SyncMarkers
      [] src = "v3" -> AsyncMarkers
      [] src = "f1" -> {}
      [] src = "cmf" -> SyncMarkers
      [] src = "acmf" -> AsyncMarkers
      [] src = "agf" -> GenMarkers
      [] src = "hybf" -> SyncMarkers \cup AsyncMarkers \cup GenMarkers
      [] src = "K1" -> {}
      [] src = "K2" -> SyncMarkers
      [] OTHER -> {}

\* the class of the objects each source yields; K1 and K2 are themselves classes
TypeOf(src) ==
    CASE src \in {"v1", "f1", "K1"} -> "K1"
      [] src \in {"v2", "cmf", "K2"} -> "K2"
      [] src \in {"acmf", "v3"} -> "AsyncContextManagerClass"
      [] src = "agf" -> "AsyncGeneratorClass"
      [] src = "hybf" -> "HybridClass"
      [] OTHER -> "-"

\* an object: where it came from and, for a constructed one, its serial number
NoObj == [src |-> "-", id |-> 0]
InstanceObj(v) == [src |-> v, id |-> 0]
Objs == {InstanceObj(v) : v \in Instances \cup {SharedResource}}
        \cup [src : Callables \cup Keys, id : 1..MaxObjs]

\* a value given with its markers spelled out, and Python's None
ProbeObj(marks) == [src |-> "probe", id |-> 0, marks |-> marks]
NoneObj == [src |-> None, id |-> 0]

\* hasattr(obj, name) for the marker names
Markers(obj) ==
    IF "marks" \in DOMAIN obj THEN obj.marks ELSE SrcMarkers(obj.src)

(***************************************************************************)
(* Registry: DependencyRegistry.__registry, a dict from key to producer.   *)
(***************************************************************************)
VARIABLES
    registry,   \* the dict: a function whose domain is the registered keys
    nextId,     \* objects constructed so far
    lastReg,    \* history: options of the latest register of each key
    lastOp,     \* history: the operation of the last step and its outcome
    inv,        \* the wrapped invocations, one per slot
    open,       \* resources acquired and not yet released: object -> count
    probe       \* the value handed to the classifier, and its last answer

vars == <<registry, nextId, lastReg, lastOp, inv, open, probe>>

\* the keyword options of register(); None is "not supplied"
NoOpts ==
    [instance |-> None, factory |-> None, context_manager |-> None,
     async_context_manager |-> None, async_generator_factory |-> None]

AllOpts ==
    [instance : {None} \cup Instances,
     factory : {None, "f1"},
     context_manager : {None, "cmf"},
     async_context_manager : {None, "acmf"},
     async_generator_factory : {None, "agf"}]

\* the registrations the wrapped calls are run against: one option each
WrapOpts ==
    {[NoOpts EXCEPT !.instance = "v2"],
     [NoOpts EXCEPT !.factory = "f1"],
     [NoOpts EXCEPT !.context_manager = "cmf"],
     [NoOpts EXCEPT !.async_context_manager = "acmf"],
     [NoOpts EXCEPT !.async_generator_factory = "agf"],
     [NoOpts EXCEPT !.factory = "hybf"]}

\* a stored producer: a zero-argument callable
InstanceProducer(v) == [kind |-> "instance", src |-> v]
CallableProducer(f) == [kind |-> "callable", src |-> f]
DefaultProducer(k) == [kind |-> "default", src |-> k]

\* outcomes of an operation
NoOut == [kind |-> "none", val |-> NoObj, err |-> "-"]
Value(obj) == [kind |-> "value", val |-> obj, err |-> "-"]
Error(e) == [kind |-> "error", val |-> NoObj, err |-> e]

(***************************************************************************)
(* Classifier: Inspector (inspector.py), structural capability detection.  *)
(***************************************************************************)
is_context_manager(obj) ==
    "__enter__" \in Markers(obj) /\ "__exit__" \in Markers(obj)

is_async_context_manager(obj) ==
    "__aenter__" \in Markers(obj) /\ "__aexit__" \in Markers(obj)

\* variant: one marker of the pair is enough
is_async_generator_either(obj) ==
    "__aiter__" \in Markers(obj) \/ "__anext__" \in Markers(obj)

is_async_generator(obj) ==
    "__aiter__" \in Markers(obj) /\ "__anext__" \in Markers(obj)

Predicates == {"is_context_manager", "is_async_context_manager", "is_async_generator"}

\* Inspector.<pred>(obj)
Apply(pred, obj) ==
    CASE pred = "is_context_manager" -> is_context_manager(obj)
      [] pred = "is_async_context_manager" -> is_async_context_manager(obj)
      [] pred = "is_async_generator" -> is_async_generator(obj)

\* the values the classifier is tried on: every combination of the six
\* markers, and None
ProbeValues ==
    {ProbeObj(m) : m \in SUBSET (SyncMarkers \cup AsyncMarkers \cup GenMarkers)}
        \cup {NoneObj}

NoProbe == [obj |-> NoneObj, pred |-> "-", result |-> FALSE]

(***************************************************************************)
(* Targets, their declared signatures, and the wrapped callables.          *)
(***************************************************************************)
POK == "POSITIONAL_OR_KEYWORD"
KWONLY == "KEYWORD_ONLY"

Funcs == {"g2", "g3", "h2"}

\* inspect.signature(func).parameters of each target, in declaration order
Params(fn) ==
    CASE fn = "g2" -> <<[name |-> "a", kind |-> POK],
                        [name |-> "dep", kind |-> POK],
                        [name |-> "b", kind |-> POK]>>
      [] fn = "g3" -> <<[name |-> "a", kind |-> POK],
                        [name |-> "dep", kind |-> KWONLY]>>
      [] fn = "h2" -> <<[name |-> "a", kind |-> POK],
                        [name |-> "dep1", kind |-> POK],
                        [name |-> "dep2", kind |-> POK]>>

ParamNames(fn) == {Params(fn)[i].name : i \in DOMAIN Params(fn)}

IsPositional(p) == p.kind = POK

NumPositional(fn) ==
    Cardinality({i \in DOMAIN Params(fn) : IsPositional(Params(fn)[i])})

IndexOf(sig, name) == CHOOSE i \in DOMAIN sig : sig[i].name = name

Modes == {"sync", "async"}

\* a value that is not callable, handed to a wrap entry point as the target
NotCallable == "not a function"

\* callable(func)
IsCallable(fn) == fn \in Funcs

\* a wrapped callable: the target, the wrapper kind, and the wrap steps applied
\* to it, innermost first (layers[1] wraps the target itself)
NoWrapped == [fn |-> "-", mode |-> "-", layers |-> <<>>]
SingleWrapped ==
    [fn : {"g2", "g3"}, mode : Modes,
     layers : {<<[param |-> "dep", key |-> "K1"]>>}]

\* h2 wrapped for both of its dependency parameters: by inject, which wraps in
\* declaration order (dep1 innermost), and by two wrap calls in the other order
LayeredWrapped ==
    [fn : {"h2"}, mode : Modes,
     layers : {<<[param |-> "dep1", key |-> "K1"], [param |-> "dep2", key |-> "K2"]>>,
               <<[param |-> "dep2", key |-> "K2"], [param |-> "dep1", key |-> "K1"]>>}]

\* variant: inject wraps the last annotated parameter first
InjectLayersOuterFirst ==
    <<[param |-> "dep2", key |-> "K2"], [param |-> "dep1", key |-> "K1"]>>

\* the layers inject builds for h2: one wrap per annotated parameter in
\* declaration order, each around the result of the one before
\* (injector.py lines 36-52), so dep1 is innermost and dep2 outermost
InjectLayers ==
    <<[param |-> "dep1", key |-> "K1"], [param |-> "dep2", key |-> "K2"]>>

\* values a parameter can be bound to
NoVal == [t |-> "-", obj |-> NoObj, n |-> 0]
ArgVal(i) == [t |-> "arg", obj |-> NoObj, n |-> i]   \* caller's i-th positional
KwVal == [t |-> "kw", obj |-> NoObj, n |-> 0]        \* caller's keyword value
DepVal(o) == [t |-> "dep", obj |-> o, n |-> 0]       \* the resolved object
\* variant: the resource object itself stands for what acquiring it returned
CtxValSelf(o) == [t |-> "dep", obj |-> o, n |-> 0]
CtxVal(o) == [t |-> "ctx", obj |-> o, n |-> 0]       \* what acquiring o returned
\* variant: the value after the one just yielded
ItemValNext(o, i) == [t |-> "item", obj |-> o, n |-> i + 1]
ItemVal(o, i) == [t |-> "item", obj |-> o, n |-> i]  \* i-th value o yielded

EmptyMap == [x \in {} |-> NoVal]

\* variant: the wrapper builds the keywords anew from the injected one
SetKwAlone(kw, name, v) == [x \in {name} |-> v]

SetKw(kw, name, v) ==
    [x \in DOMAIN kw \cup {name} |-> IF x = name THEN v ELSE kw[x]]

\* how a call ends
NoResult ==
    [kind |-> "none", none |-> FALSE, bound |-> EmptyMap, err |-> "-", ctx |-> "-"]
ReturnOf(b) ==
    [kind |-> "return", none |-> FALSE, bound |-> b, err |-> "-", ctx |-> "-"]
ReturnNone ==
    [kind |-> "return", none |-> TRUE, bound |-> EmptyMap, err |-> "-", ctx |-> "-"]
Raise(e, c) ==
    [kind |-> "raise", none |-> FALSE, bound |-> EmptyMap, err |-> e, ctx |-> c]

\* func(*args, **kwargs) on the target: Python's binding of the arguments to
\* the declared parameters (none has a default)
Bind(sig, args, kwargs) ==
    LET posIdx == {i \in DOMAIN sig : IsPositional(sig[i])}
        rank(i) == Cardinality({j \in posIdx : j <= i})
        names == {sig[i].name : i \in DOMAIN sig}
        byPos == {i \in posIdx : rank(i) <= Len(args)}
        byPosNames == {sig[i].name : i \in byPos}
    IN  IF Len(args) > Cardinality(posIdx)
        THEN [ok |-> FALSE, map |-> EmptyMap]
        ELSE IF \E n \in DOMAIN kwargs : n \notin names \/ n \in byPosNames
        THEN [ok |-> FALSE, map |-> EmptyMap]
        ELSE IF \E n \in names : n \notin byPosNames /\ n \notin DOMAIN kwargs
        THEN [ok |-> FALSE, map |-> EmptyMap]
        ELSE [ok |-> TRUE,
              map |-> [n \in names |->
                        IF n \in byPosNames
                        THEN args[rank(IndexOf(sig, n))]
                        ELSE kwargs[n]]]

\* the target's body: it returns its bound parameters, or raises
TargetOutcomes(fn, args, kwargs) ==
    LET b == Bind(Params(fn), args, kwargs)
    IN  IF b.ok
        THEN {ReturnOf(b.map), Raise("TargetError", "-")}
        ELSE {Raise("TypeError", "-")}

(***************************************************************************)
(* Wrapper (wrapper.py): the per-invocation algorithm.                     *)
(***************************************************************************)
\* lines 32-39 / 75-82: positional parameters declared before param_name
PositionalCount(sig, param) ==
    Cardinality({i \in DOMAIN sig :
                    i < IndexOf(sig, param) /\ IsPositional(sig[i])})

\* variant: the caller's positional arguments are not looked at
CoveredNever(sig, param, args) == FALSE

\* variant: the comparison is off by one
CoveredOffByOne(sig, param, args) ==
    /\ IsPositional(sig[IndexOf(sig, param)])
    /\ Len(args) > PositionalCount(sig, param) + 1

\* lines 32-42 / 75-85: the caller's positional arguments reach the parameter
Covered(sig, param, args) ==
    /\ IsPositional(sig[IndexOf(sig, param)])
    /\ Len(args) > PositionalCount(sig, param)

\* variant: the sync wrapper passes every resolved value on as it is
SyncBranchNoScope(sig, param, args, dep) ==
    IF Covered(sig, param, args) THEN "skip" ELSE "plain"

\* variant: the sync wrapper classifies before it looks at the caller's
\* positional arguments
SyncBranchScopeFirst(sig, param, args, dep) ==
    IF is_context_manager(dep) THEN "cm"
    ELSE IF Covered(sig, param, args) THEN "skip"
    ELSE "plain"

\* variant: the sync wrapper also opens a scope for an asynchronous scoped
\* resource
SyncBranchAsyncAware(sig, param, args, dep) ==
    IF Covered(sig, param, args) THEN "skip"
    ELSE IF is_context_manager(dep) THEN "cm"
    ELSE IF is_async_context_manager(dep) THEN "acm"
    ELSE "plain"

\* the branch the sync wrapper takes (lines 42-55)
SyncBranch(sig, param, args, dep) ==
    IF Covered(sig, param, args) THEN "skip"
    ELSE IF is_context_manager(dep) THEN "cm"
    ELSE "plain"

\* variant: the async wrapper does not look for an asynchronous scoped resource
AsyncBranchNoScope(sig, param, args, dep) ==
    IF Covered(sig, param, args) THEN "skip"
    ELSE IF is_async_generator(dep) THEN "agen"
    ELSE "plain"

\* variant: the async wrapper looks for a multi-value resource first
AsyncBranchGenFirst(sig, param, args, dep) ==
    IF Covered(sig, param, args) THEN "skip"
    ELSE IF is_async_generator(dep) THEN "agen"
    ELSE IF is_async_context_manager(dep) THEN "acm"
    ELSE "plain"

\* the branch the async wrapper takes (lines 85-102)
AsyncBranch(sig, param, args, dep) ==
    IF Covered(sig, param, args) THEN "skip"
    ELSE IF is_async_context_manager(dep) THEN "acm"
    ELSE IF is_async_generator(dep) THEN "agen"
    ELSE "plain"

Branch(mode, sig, param, args, dep) ==
    IF mode = "sync" THEN SyncBranch(sig, param, args, dep)
    ELSE AsyncBranch(sig, param, args, dep)

\* variant: the resolved value replaces a keyword the caller gave
PlainKwargsOverwrite(kw, param, dep) == SetKw(kw, param, DepVal(dep))

\* lines 53-54 / 100-101: a plain value is bound only if the caller gave none
PlainKwargs(kw, param, dep) ==
    IF param \notin DOMAIN kw THEN SetKw(kw, param, DepVal(dep)) ELSE kw

\* branches in which the wrapper holds a with / async with block open
Scoped == {"cm", "acm"}

\* variant: the block swallows whatever the body raised
ExitResultSwallow(pend, how) ==
    IF how = "raise" THEN Raise("ExitError", pend.err)
    ELSE IF pend.kind = "raise" THEN ReturnNone
    ELSE pend

\* variant: the body's exception is re-raised whatever the release step returns
ExitResultReraise(pend, how) ==
    IF how = "raise" THEN Raise("ExitError", pend.err)
    ELSE pend

\* variant: a release step that raises is ignored when the body returned, and
\* loses the body's exception otherwise
ExitResultMasked(pend, how) ==
    IF how = "raise"
    THEN (IF pend.kind = "raise" THEN Raise("ExitError", "-") ELSE pend)
    ELSE IF pend.kind = "raise" /\ how = "truthy" THEN ReturnNone
    ELSE pend

\* what leaving the with block makes of the body's result, given how the
\* release step (__exit__ / __aexit__) ended
ExitResult(pend, how) ==
    IF how = "raise" THEN Raise("ExitError", pend.err)
    ELSE IF pend.kind = "raise" /\ how = "truthy" THEN ReturnNone
    ELSE pend

\* variant: the end of the sequence reaches the caller as an exception
ExhaustedResultError == Raise("StopAsyncIteration", "-")

\* lines 95-97 with a sequence that ends before its first value: the loop body
\* never runs and the wrapper falls off its end
ExhaustedResult == ReturnNone

\* one active wrapper layer of an invocation
Frame(layer) ==
    [layer |-> layer, pc |-> "begin", branch |-> "-", dep |-> NoObj,
     pend |-> NoResult]

Event(ev, layer, obj, how, exc) ==
    [ev |-> ev, layer |-> layer, obj |-> obj, how |-> how, exc |-> exc]

\* an invocation; branches is history: the branch each layer took, outermost
\* layer first; entry is the wrap entry point that made the wrapped callable
IdleInv ==
    [status |-> "idle", w |-> NoWrapped, args |-> <<>>, kwargs |-> EmptyMap,
     cur |-> EmptyMap, stack |-> <<>>, result |-> NoResult, trace |-> <<>>,
     tcalls |-> <<>>, branches |-> <<>>, entry |-> "-"]

Slots == {"A", "B"}

Count(bag, o) == IF o \in DOMAIN bag THEN bag[o] ELSE 0
SetCount(bag, o, n) ==
    [x \in (IF n > 0 THEN DOMAIN bag \cup {o} ELSE DOMAIN bag \ {o}) |->
        IF x = o THEN n ELSE bag[x]]
Acquire(bag, o) == SetCount(bag, o, Count(bag, o) + 1)
Release(bag, o) == SetCount(bag, o, IF Count(bag, o) > 0 THEN Count(bag, o) - 1 ELSE 0)

Top(st) == st[Len(st)]
Pop(st) == SubSeq(st, 1, Len(st) - 1)
SetTop(st, f) == [st EXCEPT ![Len(st)] = f]

\* the call made by the top frame has ended with r: a frame inside a with block
\* goes on to its release step, any other frame returns r to its own caller
RECURSIVE Completed(_, _)
Completed(st, r) ==
    IF st = <<>> THEN [stack |-> <<>>, result |-> r]
    ELSE IF Top(st).branch \in Scoped
    THEN [stack |-> SetTop(st, [Top(st) EXCEPT !.pc = "exit", !.pend = r]),
          result |-> NoResult]
    ELSE Completed(Pop(st), r)

\* variant: the frame that ended is still treated as holding its block open
EndedInScope(st, r) == Completed(st, r)

\* the top frame itself has ended with r (not through its call)
Ended(st, r) == Completed(Pop(st), r)

\* variant: the wrapper reports a failed resolve as an error of its own
PropagatedWrapped(err) == Raise("InjectionError", err)

\* line 25 / 68: resolve is called outside any try block, its exception is the
\* wrapper's
Propagated(err) == Raise(err, "-")

\* the invocation after its stack became u.stack with u.result
After(i, u, events, cur, tcalls) ==
    [i EXCEPT !.status = IF u.stack = <<>> THEN "done" ELSE "running",
              !.stack = u.stack,
              !.result = u.result,
              !.trace = i.trace \o events,
              !.cur = cur,
              !.tcalls = tcalls]

\* variant: the factory is looked at before the instance
StoredProducerFactoryFirst(k, o) ==
    IF o.factory # None THEN CallableProducer(o.factory)
    ELSE IF o.instance # None THEN InstanceProducer(o.instance)
    ELSE IF o.context_manager # None THEN CallableProducer(o.context_manager)
    ELSE IF o.async_context_manager # None
         THEN CallableProducer(o.async_context_manager)
    ELSE IF o.async_generator_factory # None
         THEN CallableProducer(o.async_generator_factory)
    ELSE DefaultProducer(k)

\* register(), lines 39-50: the if/elif chain that picks the stored producer
StoredProducer(k, o) ==
    IF o.instance # None THEN InstanceProducer(o.instance)
    ELSE IF o.factory # None THEN CallableProducer(o.factory)
    ELSE IF o.context_manager # None THEN CallableProducer(o.context_manager)
    ELSE IF o.async_context_manager # None
         THEN CallableProducer(o.async_context_manager)
    ELSE IF o.async_generator_factory # None
         THEN CallableProducer(o.async_generator_factory)
    ELSE DefaultProducer(k)

\* variant: setdefault, an existing entry is kept
PutIfAbsent(reg, k, p) ==
    [x \in DOMAIN reg \cup {k} |-> IF x \in DOMAIN reg THEN reg[x] ELSE p]

\* variant: the dict is rebuilt with the one entry
PutAlone(reg, k, p) == [x \in {k} |-> p]

\* cls.__registry[dependency_cls] = producer
Put(reg, k, p) ==
    [x \in DOMAIN reg \cup {k} |-> IF x = k THEN p ELSE reg[x]]

\* variant: the instance closure rebuilds the object on every call
InvokeCopy(p, id) ==
    {Value([src |-> p.src, id |-> id])}

\* variant: the first result of a user callable is kept and returned again
InvokeCached(p, id) ==
    CASE p.kind = "instance" -> {Value(InstanceObj(p.src))}
      [] OTHER -> {Value([src |-> p.src, id |-> 1]), Error("ProducerError")}

\* variant: the key's constructor is called once and its object kept
InvokeDefaultOnce(p, id) ==
    CASE p.kind = "instance" -> {Value(InstanceObj(p.src))}
      [] p.kind = "callable" ->
            {Value([src |-> p.src, id |-> id]), Error("ProducerError")}
      [] p.kind = "default" ->
            {Value([src |-> p.src, id |-> 0]), Error("ProducerError")}

\* what calling a stored producer can do: the instance closure returns the
\* captured object; a user callable or the key's constructor builds a new
\* object (serial number id) or raises
Invoke(p, id) ==
    CASE p.kind = "instance" -> {Value(InstanceObj(p.src))}
      [] p.kind = "callable" ->
            {Value([src |-> p.src, id |-> id]), Error("ProducerError")}
      [] p.kind = "default" ->
            {Value([src |-> p.src, id |-> id]), Error("ProducerError")}

\* variant: a missing key is constructed instead of being refused
ResolveOutcomesDefault(reg, k, id) ==
    IF k \notin DOMAIN reg
    THEN {Value([src |-> k, id |-> id])}
    ELSE {Value([src |-> reg[k].src, id |-> id])}

\* variant: the dict is indexed without the membership test
ResolveOutcomesKeyError(reg, k, id) ==
    IF k \notin DOMAIN reg
    THEN {Error("KeyError")}
    ELSE Invoke(reg[k], id)

\* resolve(), lines 66-70: the possible outcomes of resolve(k) on registry reg
ResolveOutcomes(reg, k, id) ==
    IF k \notin DOMAIN reg
    THEN {Error("ValueError")}
    ELSE Invoke(reg[k], id)

\* the producers resolve(k) calls, in order
ResolveInvokes(reg, k) ==
    IF k \notin DOMAIN reg THEN <<>> ELSE <<reg[k]>>

\* the producers register() calls, in order
RegisterInvokes(k, o) == <<>>

\* variant: clear only warns
ClearedNothing(reg) == reg

\* clear(), line 76: cls.__registry.clear()
Cleared(reg) == <<>>

\* whether an outcome is a newly constructed object
IsFresh(out) == out.kind = "value" /\ out.val.id > 0

\* history of a key: whether it is registered, the options of its latest
\* register, and whether it held a registration before that register (or, for
\* an unregistered key, before the clear that removed it)
NoReg == [registered |-> FALSE, opts |-> NoOpts, prior |-> FALSE]

Op(op, k, out, invoked) ==
    [op |-> op, key |-> k, out |-> out, invoked |-> invoked]

\* a synchronous wrapped call is in progress: it runs to its end before
\* anything else happens; an asynchronous one is suspended at its awaits
SyncBusy(except) ==
    \E t \in Slots \ except :
        inv[t].status = "running" /\ inv[t].w.mode = "sync"

WrapperOp == Op("wrapper", "-", NoOut, <<>>)

Init ==
    /\ registry = <<>>
    /\ nextId = 0
    /\ lastReg = [k \in Keys |-> NoReg]
    /\ lastOp = Op("init", "-", NoOut, <<>>)
    /\ inv = [s \in Slots |-> IdleInv]
    /\ open = <<>>
    /\ probe = NoProbe

Register(k, o) ==
    /\ ~SyncBusy({})
    /\ registry' = Put(registry, k, StoredProducer(k, o))
    /\ lastReg' = [lastReg EXCEPT ![k] =
                    [registered |-> TRUE, opts |-> o,
                     prior |-> k \in DOMAIN registry]]
    /\ lastOp' = Op("register", k, NoOut, RegisterInvokes(k, o))
    /\ UNCHANGED <<nextId, inv, open, probe>>

Resolve(k) ==
    /\ ~SyncBusy({})
    /\ \E out \in ResolveOutcomes(registry, k, nextId + 1) :
        /\ IsFresh(out) => nextId < MaxObjs
        /\ nextId' = IF IsFresh(out) THEN nextId + 1 ELSE nextId
        /\ lastOp' = Op("resolve", k, out, ResolveInvokes(registry, k))
        /\ UNCHANGED <<registry, lastReg, inv, open, probe>>

\* variant: clear also drops what the running calls hold
ClearClosing ==
    /\ ~SyncBusy({})
    /\ registry' = Cleared(registry)
    /\ lastReg' = [k \in Keys |->
                    [NoReg EXCEPT !.prior = k \in DOMAIN registry
                                            \/ (~lastReg[k].registered
                                                /\ lastReg[k].prior)]]
    /\ lastOp' = Op("clear", "-", NoOut, <<>>)
    /\ open' = <<>>
    /\ UNCHANGED <<nextId, inv, probe>>

Clear ==
    /\ ~SyncBusy({})
    /\ registry' = Cleared(registry)
    /\ lastReg' = [k \in Keys |->
                    [NoReg EXCEPT !.prior = k \in DOMAIN registry
                                            \/ (~lastReg[k].registered
                                                /\ lastReg[k].prior)]]
    /\ lastOp' = Op("clear", "-", NoOut, <<>>)
    /\ UNCHANGED <<nextId, inv, open, probe>>

\* the caller calls the wrapped callable w with args and kwargs
Start(s, w, args, kwargs) ==
    /\ inv[s].status # "running"
    /\ ~SyncBusy({})
    /\ inv' = [inv EXCEPT ![s] =
                [IdleInv EXCEPT !.status = "running", !.w = w, !.args = args,
                                !.kwargs = kwargs, !.cur = kwargs,
                                !.stack = <<Frame(Len(w.layers))>>,
                                !.entry = inv[s].entry]]
    /\ lastOp' = WrapperOp
    /\ UNCHANGED <<registry, nextId, lastReg, open, probe>>

\* lines 25-55 / 68-102 up to the first call into user code after resolve:
\* resolve the key, read the target's signature (inspect.signature raises
\* TypeError for a target that is not callable), look at the caller's
\* positional arguments, classify
Begin(s) ==
    LET i == inv[s]
        f == Top(i.stack)
        lay == i.w.layers[f.layer]
        sig == Params(i.w.fn)
    IN  /\ i.status = "running"
        /\ ~SyncBusy({s})
        /\ f.pc = "begin"
        /\ \E out \in ResolveOutcomes(registry, lay.key, nextId + 1) :
            /\ IsFresh(out) => nextId < MaxObjs
            /\ nextId' = IF IsFresh(out) THEN nextId + 1 ELSE nextId
            /\ IF out.kind = "error"
               THEN inv' = [inv EXCEPT ![s] =
                        After(i, Ended(i.stack, Propagated(out.err)),
                              <<Event("resolve", f.layer, NoObj, "raise", out.err)>>,
                              i.cur, i.tcalls)]
               ELSE IF ~IsCallable(i.w.fn)
               THEN inv' = [inv EXCEPT ![s] =
                        After(i, Ended(i.stack, Raise("TypeError", "-")),
                              <<Event("resolve", f.layer, out.val, "ok", "-")>>,
                              i.cur, i.tcalls)]
               ELSE LET br == Branch(i.w.mode, sig, lay.param, i.args, out.val)
                        g == [f EXCEPT !.dep = out.val, !.branch = br,
                                       !.pc = IF br \in {"cm", "acm", "agen"}
                                              THEN "enter" ELSE "call"]
                    IN  inv' = [inv EXCEPT ![s] =
                            [i EXCEPT !.stack = SetTop(i.stack, g),
                                      !.trace = i.trace \o
                                        <<Event("resolve", f.layer, out.val, "ok", "-")>>,
                                      !.branches = Append(i.branches, br),
                                      !.cur = IF br = "plain"
                                              THEN PlainKwargs(i.cur, lay.param, out.val)
                                              ELSE i.cur]]
        /\ lastOp' = WrapperOp
        /\ UNCHANGED <<registry, lastReg, open, probe>>

\* lines 47 / 90: with dependency as context_obj -- the acquire step
Enter(s) ==
    LET i == inv[s]
        f == Top(i.stack)
        lay == i.w.layers[f.layer]
    IN  /\ i.status = "running"
        /\ ~SyncBusy({s})
        /\ f.pc = "enter"
        /\ f.branch \in Scoped
        /\ \E how \in {"ok", "raise"} :
            IF how = "ok"
            THEN /\ open' = Acquire(open, f.dep)
                 /\ inv' = [inv EXCEPT ![s] =
                        [i EXCEPT !.stack = SetTop(i.stack, [f EXCEPT !.pc = "call"]),
                                  !.trace = i.trace \o
                                    <<Event("enter", f.layer, f.dep, "ok", "-")>>,
                                  !.cur = SetKw(i.cur, lay.param, CtxVal(f.dep))]]
            ELSE /\ open' = open
                 /\ inv' = [inv EXCEPT ![s] =
                        After(i, Ended(i.stack, Raise("EnterError", "-")),
                              <<Event("enter", f.layer, f.dep, "raise", "EnterError")>>,
                              i.cur, i.tcalls)]
        /\ lastOp' = WrapperOp
        /\ UNCHANGED <<registry, nextId, lastReg, probe>>

\* line 95: async for context_obj in dependency -- the first advance
Advance(s) ==
    LET i == inv[s]
        f == Top(i.stack)
        lay == i.w.layers[f.layer]
    IN  /\ i.status = "running"
        /\ ~SyncBusy({s})
        /\ f.pc = "enter"
        /\ f.branch = "agen"
        /\ \E how \in {"yield", "stop", "raise"} :
            CASE how = "yield" ->
                 /\ open' = SetCount(open, f.dep, 1)
                 /\ inv' = [inv EXCEPT ![s] =
                        [i EXCEPT !.stack = SetTop(i.stack, [f EXCEPT !.pc = "call"]),
                                  !.trace = i.trace \o
                                    <<Event("anext", f.layer, f.dep, "yield", "-")>>,
                                  !.cur = SetKw(i.cur, lay.param, ItemVal(f.dep, 1))]]
              [] how = "stop" ->
                 /\ open' = SetCount(open, f.dep, 0)
                 /\ inv' = [inv EXCEPT ![s] =
                        After(i, Ended(i.stack, ExhaustedResult),
                              <<Event("anext", f.layer, f.dep, "stop", "-")>>,
                              i.cur, i.tcalls)]
              [] how = "raise" ->
                 /\ open' = SetCount(open, f.dep, 0)
                 /\ inv' = [inv EXCEPT ![s] =
                        After(i, Ended(i.stack, Raise("AnextError", "-")),
                              <<Event("anext", f.layer, f.dep, "raise", "AnextError")>>,
                              i.cur, i.tcalls)]
        /\ lastOp' = WrapperOp
        /\ UNCHANGED <<registry, nextId, lastReg, probe>>

\* func(*args, **kwargs) where func is the next wrapper layer
CallInner(s) ==
    LET i == inv[s]
        f == Top(i.stack)
    IN  /\ i.status = "running"
        /\ ~SyncBusy({s})
        /\ f.pc = "call"
        /\ f.layer > 1
        /\ inv' = [inv EXCEPT ![s] =
                    [i EXCEPT !.stack = Append(i.stack, Frame(f.layer - 1))]]
        /\ lastOp' = WrapperOp
        /\ UNCHANGED <<registry, nextId, lastReg, open, probe>>

\* func(*args, **kwargs) where func is the target: lines 43, 50, 55 / 86, 92,
\* 97, 102
CallTarget(s) ==
    LET i == inv[s]
        f == Top(i.stack)
    IN  /\ i.status = "running"
        /\ ~SyncBusy({s})
        /\ f.pc = "call"
        /\ f.layer = 1
        /\ \E r \in TargetOutcomes(i.w.fn, i.args, i.cur) :
            inv' = [inv EXCEPT ![s] =
                After(i, Completed(i.stack, r),
                      <<Event("call", 0, NoObj, r.kind, r.err)>>,
                      i.cur,
                      Append(i.tcalls, [args |-> i.args, kwargs |-> i.cur])) ]
        /\ lastOp' = WrapperOp
        /\ UNCHANGED <<registry, nextId, lastReg, open, probe>>

\* leaving the with / async with block: the release step, called with the
\* exception that is propagating, if any
Exit(s) ==
    LET i == inv[s]
        f == Top(i.stack)
    IN  /\ i.status = "running"
        /\ ~SyncBusy({s})
        /\ f.pc = "exit"
        /\ \E how \in {"falsy", "truthy", "raise"} :
            inv' = [inv EXCEPT ![s] =
                After(i, Ended(i.stack, ExitResult(f.pend, how)),
                      <<Event("exit", f.layer, f.dep, how, f.pend.err)>>,
                      i.cur, i.tcalls)]
        /\ open' = Release(open, f.dep)
        /\ lastOp' = WrapperOp
        /\ UNCHANGED <<registry, nextId, lastReg, probe>>

\* the caller's arguments: the first n positional parameters by position
CallerArgs(fn) ==
    {[i \in 1..n |-> ArgVal(i)] : n \in 0..NumPositional(fn)}

\* the parameters n positional arguments leave unbound
Unbound(fn, n) ==
    {Params(fn)[i].name : i \in {j \in DOMAIN Params(fn) :
        ~IsPositional(Params(fn)[j]) \/ PositionalCount(Params(fn), Params(fn)[j].name) >= n}}

\* the caller's keywords: none or all of the ordinary parameters left unbound,
\* with or without the injected parameter
CallerKwargs(fn, args) ==
    {[x \in S \cup D |-> KwVal] :
        S \in {{}, Unbound(fn, Len(args)) \ {"dep"}}, D \in SUBSET {"dep"}}

Step(s) ==
    \/ Begin(s)
    \/ Enter(s)
    \/ Advance(s)
    \/ CallTarget(s)
    \/ Exit(s)

(***************************************************************************)
(* Composed wrappers: a target wrapped once for each of two parameters.    *)
(***************************************************************************)
\* the parameters of a wrapped callable that a layer injects
Injected(w) == {w.layers[l].param : l \in DOMAIN w.layers}

\* the caller's keywords for a composed wrapper: none or all of the ordinary
\* parameters left unbound, with or without a keyword for dep1
LayeredKwargs(w, args) ==
    {[x \in S \cup D |-> KwVal] :
        S \in {{}, Unbound(w.fn, Len(args)) \ Injected(w)},
        D \in SUBSET ({"dep1"} \cap Unbound(w.fn, Len(args)))}

\* the registrations the composed wrappers are run against
LayerOptsK1 ==
    {[NoOpts EXCEPT !.factory = "f1"],
     [NoOpts EXCEPT !.context_manager = "cmf"],
     [NoOpts EXCEPT !.async_context_manager = "acmf"]}

LayerOptsK2 ==
    {[NoOpts EXCEPT !.instance = "v2"],
     [NoOpts EXCEPT !.async_context_manager = "acmf"]}

LayerStep(s) ==
    \/ Begin(s)
    \/ Enter(s)
    \/ CallInner(s)
    \/ CallTarget(s)
    \/ Exit(s)

LayersNext ==
    \/ \E o \in LayerOptsK1 : Register("K1", o)
    \/ \E o \in LayerOptsK2 : Register("K2", o)
    \/ \E w \in LayeredWrapped :
          \E args \in CallerArgs(w.fn) :
              \E kw \in LayeredKwargs(w, args) : Start("A", w, args, kw)
    \/ LayerStep("A")

(***************************************************************************)
(* Concurrent asynchronous calls of one wrapped callable, and their        *)
(* cancellation by the event loop.                                         *)
(***************************************************************************)
\* the wrapped coroutine function the concurrent calls go through, and the
\* arguments of each call
AsyncWrapped ==
    [fn |-> "g3", mode |-> "async", layers |-> <<[param |-> "dep", key |-> "K1"]>>]

AsyncArgs == <<ArgVal(1)>>

\* the registrations the concurrent calls are run against
ConcurrentOpts ==
    {[NoOpts EXCEPT !.instance = SharedResource],
     [NoOpts EXCEPT !.async_context_manager = "acmf"],
     [NoOpts EXCEPT !.async_generator_factory = "agf"]}

\* the task running the call is cancelled while the call is suspended in
\* 'await func(*args, **kwargs)' (lines 92, 97, 102): CancelledError is raised
\* at that await, inside the with / for block of the wrapper
Cancel(s) ==
    LET i == inv[s]
        f == Top(i.stack)
    IN  /\ i.status = "running"
        /\ i.w.mode = "async"
        /\ f.pc = "call"
        /\ f.layer = 1
        /\ inv' = [inv EXCEPT ![s] =
                After(i, Completed(i.stack, Raise("CancelledError", "-")),
                      <<Event("call", 0, NoObj, "raise", "CancelledError")>>,
                      i.cur,
                      Append(i.tcalls, [args |-> i.args, kwargs |-> i.cur]))]
        /\ lastOp' = WrapperOp
        /\ UNCHANGED <<registry, nextId, lastReg, open, probe>>

ConcurrentNext ==
    \/ \E o \in ConcurrentOpts : Register("K1", o)
    \/ \E s \in Slots : Start(s, AsyncWrapped, AsyncArgs, EmptyMap)
    \/ \E s \in Slots : Step(s)
    \/ \E s \in Slots : Cancel(s)

(***************************************************************************)
(* Wrapping: Injector.inject and the two wrap calls of Wrapper.            *)
(***************************************************************************)
EntryPoints ==
    {"inject", "wrap_function_with_context", "wrap_async_function_with_context"}

\* the wrapper kind an entry point builds: inject looks at the target
\* (inspect.iscoroutinefunction), the wrap calls are one kind each
EntryModes(entry) ==
    CASE entry = "inject" -> Modes
      [] entry = "wrap_function_with_context" -> {"sync"}
      [] entry = "wrap_async_function_with_context" -> {"async"}

\* variant: no entry point looks at the target
WrapOutcomeUnchecked(entry, fn) == "wrapped"

\* whether the entry point returns a wrapped callable or raises TypeError:
\* only inject tests callable(func) (injector.py lines 26-27)
WrapOutcome(entry, fn) ==
    IF entry = "inject" /\ ~IsCallable(fn) THEN "rejected" ELSE "wrapped"

\* entry(fn, ...): wrapping reads neither the registry nor the dependency
Wrap(s, entry, fn) ==
    /\ inv[s].status # "running"
    /\ ~SyncBusy({})
    /\ \E mode \in EntryModes(entry) :
          inv' = [inv EXCEPT ![s] =
            IF WrapOutcome(entry, fn) = "rejected"
            THEN [IdleInv EXCEPT !.status = "rejected", !.entry = entry,
                                 !.w = [fn |-> fn, mode |-> mode, layers |-> <<>>],
                                 !.result = Raise("TypeError", "-")]
            ELSE [IdleInv EXCEPT !.status = "wrapped", !.entry = entry,
                                 !.w = [fn |-> fn, mode |-> mode,
                                        layers |-> <<[param |-> "dep", key |-> "K1"]>>]]]
    /\ lastOp' = Op("wrap", "-", NoOut, <<>>)
    /\ UNCHANGED <<registry, nextId, lastReg, open, probe>>

\* the arguments a wrapped callable is called with
WrapCallArgs(fn) == IF IsCallable(fn) THEN CallerArgs(fn) ELSE {<<>>}

WrapCallKwargs(fn, args) ==
    IF IsCallable(fn) THEN CallerKwargs(fn, args) ELSE {EmptyMap}

\* a call of the wrapped callable a slot holds
Call(s) ==
    /\ inv[s].status \in {"wrapped", "done"}
    /\ \E args \in WrapCallArgs(inv[s].w.fn) :
          \E kw \in WrapCallKwargs(inv[s].w.fn, args) :
              Start(s, inv[s].w, args, kw)

\* the targets handed to the entry points, and the registrations the wrapped
\* callables are called against
WrapTargets == {"g3", NotCallable}

WrapSpecOpts ==
    {[NoOpts EXCEPT !.instance = "v2"],
     [NoOpts EXCEPT !.factory = "f1"],
     [NoOpts EXCEPT !.async_generator_factory = "agf"]}

WrapNext ==
    \/ \E o \in WrapSpecOpts : Register("K1", o)
    \/ Clear
    \/ \E e \in EntryPoints : \E fn \in WrapTargets : Wrap("A", e, fn)
    \/ Call("A")
    \/ Step("A")

(***************************************************************************)
(* The facade: class Dependency of skuf/dependency/__init__.py.            *)
(***************************************************************************)
\* the keywords Dependency.register declares: instance and factory
FacadeKeywords == {"instance", "factory"}

\* whether Python can bind the caller's keywords to Dependency.register's
\* parameters
FacadeAccepts(o) == \A f \in DOMAIN o : o[f] # None => f \in FacadeKeywords

\* what the facade passes on: instance=instance, factory=factory
FacadeOpts(o) ==
    [NoOpts EXCEPT !.instance = o.instance, !.factory = o.factory]

\* Dependency.register(k, **o)
FacadeRegister(k, o) ==
    /\ ~SyncBusy({})
    /\ IF FacadeAccepts(o)
       THEN /\ registry' = Put(registry, k, StoredProducer(k, FacadeOpts(o)))
            /\ lastReg' = [lastReg EXCEPT ![k] =
                            [registered |-> TRUE, opts |-> FacadeOpts(o),
                             prior |-> k \in DOMAIN registry]]
            /\ lastOp' = Op("Dependency.register", k, NoOut, <<>>)
       ELSE /\ UNCHANGED <<registry, lastReg>>
            /\ lastOp' = Op("Dependency.register", k, Error("TypeError"), <<>>)
    /\ UNCHANGED <<nextId, inv, open, probe>>

\* Dependency.resolve(k) and Dependency.clear() hand over to the registry
FacadeResolve(k) == Resolve(k)

FacadeClear == Clear

FacadeNext ==
    \/ \E k \in Keys : \E o \in AllOpts : FacadeRegister(k, o)
    \/ \E k \in Keys : FacadeResolve(k)
    \/ FacadeClear

\* a call of one classifier predicate on the value at hand
Classify(pred) ==
    /\ probe' = [probe EXCEPT !.pred = pred, !.result = Apply(pred, probe.obj)]
    /\ UNCHANGED <<registry, nextId, lastReg, lastOp, inv, open>>

InitInspector ==
    /\ registry = <<>>
    /\ nextId = 0
    /\ lastReg = [k \in Keys |-> NoReg]
    /\ lastOp = Op("init", "-", NoOut, <<>>)
    /\ inv = [s \in Slots |-> IdleInv]
    /\ open = <<>>
    /\ \E v \in ProbeValues : probe = [NoProbe EXCEPT !.obj = v]

InspectorNext == \E pred \in Predicates : Classify(pred)

RegistryNext ==
    \/ \E o \in AllOpts : Register("K1", o)
    \/ \E o \in WrapOpts \cup {NoOpts} : Register("K2", o)
    \/ \E k \in Keys : Resolve(k)
    \/ Clear

Next ==
    \/ \E o \in WrapOpts : Register("K1", o)
    \/ Clear
    \/ \E w \in SingleWrapped :
          \E args \in CallerArgs(w.fn) :
              \E kw \in CallerKwargs(w.fn, args) : Start("A", w, args, kw)
    \/ Step("A")

SpecRegistry == Init /\ [][RegistryNext]_vars

SpecInspector == InitInspector /\ [][InspectorNext]_vars

SpecFacade == Init /\ [][FacadeNext]_vars

SpecWrap == Init /\ [][WrapNext]_vars

SpecLayers == Init /\ [][LayersNext]_vars

SpecConcurrent == Init /\ [][ConcurrentNext]_vars

Spec == Init /\ [][Next]_vars

(***************************************************************************)
(* Properties.  They are stated from the declared signatures and the       *)
(* recorded events, not through the wrapper's own operators.               *)
(***************************************************************************)
IsSyncResource(o) == SyncMarkers \subseteq Markers(o)
IsAsyncResource(o) == AsyncMarkers \subseteq Markers(o)
IsMultiValue(o) == GenMarkers \subseteq Markers(o)

DepIndex(fn) == CHOOSE j \in DOMAIN Params(fn) : Params(fn)[j].name = "dep"

\* the position of dep among the positional parameters (1-based)
DepRank(fn) ==
    Cardinality({j \in 1..DepIndex(fn) : Params(fn)[j].kind = POK})

\* the caller's positional arguments reach the injected parameter
ArgsReachDep(fn, args) ==
    Params(fn)[DepIndex(fn)].kind = POK /\ Len(args) >= DepRank(fn)

\* the invocation resolved its key to an object
Resolved(i) ==
    /\ Len(i.trace) >= 1
    /\ i.trace[1].ev = "resolve"
    /\ i.trace[1].how = "ok"

ResolvedObj(i) == i.trace[1].obj

EvNames(tr) == [k \in 1..Len(tr) |-> tr[k].ev]

IsPrefix(a, b) == Len(a) <= Len(b) /\ a = SubSeq(b, 1, Len(a))

\* a sync wrapper call that resolved a synchronous scoped resource and must
\* inject it
SyncScopeCase(i) ==
    /\ i.w.mode = "sync"
    /\ Resolved(i)
    /\ IsSyncResource(ResolvedObj(i))
    /\ ~ArgsReachDep(i.w.fn, i.args)

\* a wrapper call that resolved the scoped resource of its own kind and must
\* inject it
ScopeCase(i) ==
    /\ Resolved(i)
    /\ ~ArgsReachDep(i.w.fn, i.args)
    /\ \/ i.w.mode = "sync" /\ IsSyncResource(ResolvedObj(i))
       \/ i.w.mode = "async" /\ IsAsyncResource(ResolvedObj(i))

ScopeEnded(i) ==
    /\ i.status = "done"
    /\ ScopeCase(i)
    /\ Len(i.trace) = 4
    /\ i.trace[3].ev = "call"
    /\ i.trace[4].ev = "exit"

AcquiredBy(i) ==
    {i.trace[k].obj : k \in {j \in 1..Len(i.trace) :
        \/ i.trace[j].ev = "enter" /\ i.trace[j].how = "ok"
        \/ i.trace[j].ev = "anext" /\ i.trace[j].how = "yield"}}

ReleasesOf(i, o) ==
    Cardinality({k \in 1..Len(i.trace) :
        i.trace[k].ev = "exit" /\ i.trace[k].obj = o})

\* C3 as stated: every resource a wrapper acquired (scoped resource entered,
\* multi-value resource advanced once) is released or finalized exactly once
\* before the invocation ends; when no invocation is in progress nothing
\* acquired is still unreleased.
C3_AllReleased ==
    /\ \A s \in Slots :
          inv[s].status = "done" =>
              \A o \in AcquiredBy(inv[s]) : ReleasesOf(inv[s], o) = 1
    /\ (\A s \in Slots : inv[s].status # "running") => DOMAIN open = {}

C5_UnregisteredFails ==
    [][(lastOp'.op = "resolve" /\ lastOp'.key \notin DOMAIN registry) =>
          /\ lastOp'.out = Error("ValueError")
          /\ lastOp'.invoked = <<>>
          /\ registry' = registry
          /\ nextId' = nextId]_vars

\* a refused resolve while another key is registered and after objects were made
C5_Witness ==
    /\ lastOp.op = "resolve"
    /\ lastOp.key \notin DOMAIN registry
    /\ lastOp.out.err = "ValueError"
    /\ DOMAIN registry # {}
    /\ nextId > 0

\* C6: while the latest register of k supplied instance = v, every resolve(k)
\* returns the object v itself.
C6_InstanceIdentity ==
    (/\ lastOp.op = "resolve"
     /\ lastReg[lastOp.key].registered
     /\ lastReg[lastOp.key].opts.instance # None)
        => /\ lastOp.out.kind = "value"
           /\ lastOp.out.val = InstanceObj(lastReg[lastOp.key].opts.instance)
           /\ lastOp.out.val.id = 0

\* a resolve returning the instance after other objects were constructed
C6_Witness ==
    /\ lastOp.op = "resolve"
    /\ lastOp.out.val = InstanceObj("v1")
    /\ lastReg[lastOp.key].opts.factory # None
    /\ nextId > 0

\* C7: while the latest register of k supplied factory = f (and no instance),
\* a resolve(k) calls f exactly once and returns the object that call built,
\* the newest one; a register calls no producer.
C7_FactoryEachTime ==
    /\ lastOp.op = "register" => lastOp.invoked = <<>>
    /\ (/\ lastOp.op = "resolve"
        /\ lastReg[lastOp.key].registered
        /\ lastReg[lastOp.key].opts.instance = None
        /\ lastReg[lastOp.key].opts.factory # None)
          => /\ lastOp.invoked =
                    <<CallableProducer(lastReg[lastOp.key].opts.factory)>>
             /\ lastOp.out.kind = "value" =>
                    lastOp.out.val =
                        [src |-> lastReg[lastOp.key].opts.factory, id |-> nextId]

\* the second object built by the factory
C7_Witness ==
    /\ lastOp.op = "resolve"
    /\ lastOp.out.val = [src |-> "f1", id |-> 2]
    /\ lastOp.invoked = <<CallableProducer("f1")>>

\* the options in priority order
Priority ==
    <<"instance", "factory", "context_manager", "async_context_manager",
      "async_generator_factory">>

\* the producer the priority order picks for register(k, o)
Expected(k, o) ==
    LET given == {j \in DOMAIN Priority : o[Priority[j]] # None}
    IN  IF given = {} THEN DefaultProducer(k)
        ELSE LET j == CHOOSE x \in given : \A y \in given : x <= y
             IN  IF j = 1 THEN InstanceProducer(o.instance)
                 ELSE CallableProducer(o[Priority[j]])

\* C8: a register(k, o) stores, for every subset of supplied options, the
\* producer of the highest-priority supplied option, the default constructor
\* when none is supplied.
C8_Priority ==
    [][lastOp'.op = "register" =>
          /\ lastOp'.key \in DOMAIN registry'
          /\ registry'[lastOp'.key] =
                Expected(lastOp'.key, lastReg'[lastOp'.key].opts)]_vars

\* all five options supplied at once: the instance is stored
C8_Witness ==
    \E k \in Keys :
        /\ lastOp.op = "register" /\ lastOp.key = k
        /\ \A f \in DOMAIN lastReg[k].opts : lastReg[k].opts[f] # None
        /\ registry[k] = InstanceProducer(lastReg[k].opts.instance)

\* C9: the registered keys are those registered since the last clear, each
\* with one producer, the one its latest register chose; a resolve calls that
\* producer only.
C9_LatestRegistrationWins ==
    /\ DOMAIN registry = {k \in Keys : lastReg[k].registered}
    /\ \A k \in DOMAIN registry : registry[k] = Expected(k, lastReg[k].opts)
    /\ (lastOp.op = "resolve" /\ lastReg[lastOp.key].registered) =>
          /\ lastOp.invoked = <<Expected(lastOp.key, lastReg[lastOp.key].opts)>>
          /\ lastOp.out.kind = "value" =>
                lastOp.out.val.src =
                    Expected(lastOp.key, lastReg[lastOp.key].opts).src

\* a resolve of a key that was registered over an earlier registration
C9_Witness ==
    /\ lastOp.op = "resolve"
    /\ lastReg[lastOp.key].registered
    /\ lastReg[lastOp.key].prior
    /\ lastOp.out.val = InstanceObj("v2")

\* C10: a clear leaves no key registered; from then on resolve(k) fails with
\* ValueError exactly as long as k has not been registered again, and once it
\* has, resolve(k) calls the new producer.
C10_ClearInvalidates ==
    /\ lastOp.op = "clear" => DOMAIN registry = {}
    /\ lastOp.op = "resolve" =>
          /\ ~lastReg[lastOp.key].registered
                => lastOp.out = Error("ValueError")
          /\ lastReg[lastOp.key].registered
                => /\ lastOp.out # Error("ValueError")
                   /\ lastOp.invoked =
                        <<Expected(lastOp.key, lastReg[lastOp.key].opts)>>

\* a refused resolve of a key a clear removed
C10_Witness ==
    /\ lastOp.op = "resolve"
    /\ lastOp.out = Error("ValueError")
    /\ ~lastReg[lastOp.key].registered
    /\ lastReg[lastOp.key].prior

\* C11: while the latest register of k supplied no option, a resolve(k) calls
\* the key's own constructor, with no arguments and exactly once, and the
\* object it returns is an instance of k that was not built before: no two
\* resolutions return the same object.
C11_DefaultConstructsNew ==
    [][(/\ lastOp'.op = "resolve"
        /\ lastReg[lastOp'.key].registered
        /\ lastReg[lastOp'.key].opts = NoOpts)
          => /\ lastOp'.invoked = <<DefaultProducer(lastOp'.key)>>
             /\ lastOp'.out.kind = "value" =>
                   /\ TypeOf(lastOp'.out.val.src) = lastOp'.key
                   /\ lastOp'.out.val.id > nextId
                   /\ nextId' = lastOp'.out.val.id]_vars

\* the second instance the constructor of K1 built
C11_Witness ==
    /\ lastOp.op = "resolve"
    /\ lastReg["K1"].registered
    /\ lastReg["K1"].opts = NoOpts
    /\ lastOp.out.val = [src |-> "K1", id |-> 2]

\* C12 as stated: a resolve of a key whose registered factory returns an
\* object that is not an instance of the key fails with TypeError.
C12_WrongTypeRefused ==
    (/\ lastOp.op = "resolve"
     /\ lastReg[lastOp.key].registered
     /\ lastReg[lastOp.key].opts.instance = None
     /\ lastReg[lastOp.key].opts.factory # None
     /\ TypeOf(lastReg[lastOp.key].opts.factory) # lastOp.key)
        => lastOp.out = Error("TypeError")

\* a wrapper call that resolved an object without capability markers, whose
\* caller gave the injected parameter neither by position nor by keyword
PlainCase(i) ==
    /\ Resolved(i)
    /\ Markers(ResolvedObj(i)) = {}
    /\ ~ArgsReachDep(i.w.fn, i.args)
    /\ "dep" \notin DOMAIN i.kwargs

\* C13: when a wrapper injects a scoped resource of its own kind (sync wrapper:
\* __enter__/__exit__, async wrapper: __aenter__/__aexit__), the target receives
\* for the injected parameter the object the acquire step returned, never the
\* resource object the producer returned; when it injects a plain value, the
\* target receives the resolved object itself.
C13_InjectedValue ==
    \A s \in Slots :
        LET i == inv[s]
        IN  /\ ScopeCase(i) =>
                /\ \A k \in 1..Len(i.tcalls) :
                      /\ "dep" \in DOMAIN i.tcalls[k].kwargs
                      /\ i.tcalls[k].kwargs["dep"] =
                            [t |-> "ctx", obj |-> ResolvedObj(i), n |-> 0]
                /\ (i.trace[Len(i.trace)].ev = "call"
                        /\ i.trace[Len(i.trace)].how = "return") =>
                      Top(i.stack).pend.bound["dep"] =
                            [t |-> "ctx", obj |-> ResolvedObj(i), n |-> 0]
            /\ PlainCase(i) =>
                /\ \A k \in 1..Len(i.tcalls) :
                      /\ "dep" \in DOMAIN i.tcalls[k].kwargs
                      /\ i.tcalls[k].kwargs["dep"] =
                            [t |-> "dep", obj |-> ResolvedObj(i), n |-> 0]
                /\ i.result.kind = "return" =>
                      i.result.bound["dep"] =
                            [t |-> "dep", obj |-> ResolvedObj(i), n |-> 0]

\* a sync call whose target returned what acquiring the second resource built
\* by the producer gave, although the caller passed a keyword for the parameter
C13_Witness ==
    \E s \in Slots :
        /\ ScopeCase(inv[s])
        /\ inv[s].w.mode = "sync"
        /\ "dep" \in DOMAIN inv[s].kwargs
        /\ inv[s].result.kind = "return"
        /\ ~inv[s].result.none
        /\ inv[s].result.bound["dep"] =
              [t |-> "ctx", obj |-> [src |-> "cmf", id |-> 2], n |-> 0]

\* an async wrapper call that resolved an asynchronous scoped resource and must
\* inject it
AsyncScopeCase(i) ==
    /\ i.w.mode = "async"
    /\ Resolved(i)
    /\ IsAsyncResource(ResolvedObj(i))
    /\ ~ArgsReachDep(i.w.fn, i.args)

FirstValueCase(i) ==
    /\ i.w.mode = "async"
    /\ Resolved(i)
    /\ IsMultiValue(ResolvedObj(i))
    /\ ~IsAsyncResource(ResolvedObj(i))
    /\ ~ArgsReachDep(i.w.fn, i.args)
    /\ Len(i.trace) >= 2
    /\ i.trace[2].ev = "anext"
    /\ i.trace[2].how = "yield"

\* C15: an async wrapper call over an asynchronous multi-value resource that
\* yields advances it once, binds the first yielded value to the injected
\* parameter, calls the target exactly once and ends with what that call
\* returned or raised; no later value reaches the target.
C15_FirstValueOnly ==
    \A s \in Slots :
        LET i == inv[s]
            n == Len(i.trace)
        IN  FirstValueCase(i) =>
              /\ Cardinality({k \in 1..n : i.trace[k].ev = "anext"}) = 1
              /\ \A k \in 1..Len(i.tcalls) :
                    /\ "dep" \in DOMAIN i.tcalls[k].kwargs
                    /\ i.tcalls[k].kwargs["dep"] =
                          [t |-> "item", obj |-> ResolvedObj(i), n |-> 1]
              /\ Len(i.tcalls) <= 1
              /\ i.status = "done" =>
                    /\ Len(i.tcalls) = 1
                    /\ i.trace[n].ev = "call"
                    /\ i.trace[n].how = "return" =>
                          /\ i.result.kind = "return" /\ ~i.result.none
                          /\ i.result.bound["dep"] =
                                [t |-> "item", obj |-> ResolvedObj(i), n |-> 1]
                    /\ i.trace[n].how = "raise" =>
                          i.result = Raise(i.trace[n].exc, "-")

\* an async call that returned the first value of the generator to its caller
C15_Witness ==
    \E s \in Slots :
        /\ FirstValueCase(inv[s])
        /\ inv[s].status = "done"
        /\ inv[s].result.kind = "return"
        /\ ~inv[s].result.none
        /\ inv[s].result.bound["dep"].t = "item"
        /\ inv[s].result.bound["dep"].n = 1

\* C16 as stated: when the target has returned normally in a call over an
\* asynchronous multi-value resource, the wrapper advances the resource again,
\* up to exhaustion, before the call ends, so the code after the single yield
\* has run by then.
C16_DrainedAfterTarget ==
    \A s \in Slots :
        LET i == inv[s]
            n == Len(i.trace)
        IN  (/\ FirstValueCase(i)
             /\ i.status = "done"
             /\ \E k \in 1..n : i.trace[k].ev = "call" /\ i.trace[k].how = "return")
              => /\ i.trace[n].ev = "anext"
                 /\ i.trace[n].how = "stop"
                 /\ Count(open, ResolvedObj(i)) = 0

\* a finished sync call over a synchronous scoped resource whose target raised
\* and whose release step returned
SyncRaisedCase(i) ==
    /\ ScopeEnded(i)
    /\ i.w.mode = "sync"
    /\ i.trace[3].how = "raise"
    /\ i.trace[4].how \in {"falsy", "truthy"}

FailedEnters(i) ==
    {k \in 1..Len(i.trace) : i.trace[k].ev = "enter" /\ i.trace[k].how = "raise"}

\* C18: when the acquire step (__enter__ / __aenter__) raises, the call ends
\* there with that exception: the target is not called and no release step is
\* called for the resource.
C18_AcquireFailure ==
    \A s \in Slots :
        LET i == inv[s]
        IN  \A k \in FailedEnters(i) :
              /\ k = Len(i.trace)
              /\ i.status = "done"
              /\ i.result = Raise(i.trace[k].exc, "-")
              /\ i.tcalls = <<>>
              /\ \A j \in 1..Len(i.trace) : i.trace[j].ev \notin {"call", "exit"}
              /\ Count(open, i.trace[k].obj) = 0

\* an async call whose __aenter__ raised
C18_Witness ==
    \E s \in Slots :
        /\ inv[s].w.mode = "async"
        /\ FailedEnters(inv[s]) # {}
        /\ inv[s].result.err = "EnterError"
        /\ IsAsyncResource(inv[s].trace[2].obj)

\* a wrapper call whose resolve found a producer and the producer raised
ProducerRaisedCase(i) ==
    /\ Len(i.trace) >= 1
    /\ i.trace[1].ev = "resolve"
    /\ i.trace[1].how = "raise"
    /\ i.trace[1].exc = "ProducerError"

\* C19: when the producer raises inside the wrapper's resolve, the call ends
\* with that same exception: the target is not called, nothing is acquired or
\* released, and right after the call the registry still holds for the key
\* the producer its latest register stored.
C19_ProducerFailure ==
    \A s \in Slots :
        LET i == inv[s]
            key == i.w.layers[1].key
        IN  ProducerRaisedCase(i) =>
              /\ Len(i.trace) = 1
              /\ i.status = "done"
              /\ i.result = Raise("ProducerError", "-")
              /\ i.tcalls = <<>>
              /\ lastOp = WrapperOp =>
                    /\ key \in DOMAIN registry
                    /\ lastReg[key].registered
                    /\ registry[key] = Expected(key, lastReg[key].opts)
                    /\ registry[key].kind # "instance"

\* a sync call that ended with the exception of the scoped-resource factory
C19_Witness ==
    \E s \in Slots :
        /\ ProducerRaisedCase(inv[s])
        /\ inv[s].w.mode = "sync"
        /\ inv[s].result.err = "ProducerError"
        /\ lastOp = WrapperOp
        /\ registry["K1"] = CallableProducer("cmf")

\* C20: when the release step of a scoped resource raises R, the wrapper call
\* raises R: after a target that returned, instead of the target's result;
\* after a target that raised E, with E as the context of R.
C20_ReleaseFailure ==
    \A s \in Slots :
        LET i == inv[s]
        IN  (ScopeEnded(i) /\ i.trace[4].how = "raise") =>
              /\ i.result.kind = "raise"
              /\ i.result.err = "ExitError"
              /\ i.trace[3].how = "return" => i.result.ctx = "-"
              /\ i.trace[3].how = "raise" =>
                    /\ i.trace[3].exc # "-"
                    /\ i.result.ctx = i.trace[3].exc

\* a call whose target returned and whose release step raised
C20_Witness ==
    \E s \in Slots :
        /\ ScopeEnded(inv[s])
        /\ inv[s].trace[3].how = "return"
        /\ inv[s].trace[4].how = "raise"
        /\ inv[s].result.err = "ExitError"

\* C22 as stated: a call of the wrapped f(a, dep, b) with two positional
\* arguments and no keyword binds them to a and b and injects the resolved
\* dependency as dep.
C22_MixedInjected ==
    \A s \in Slots :
        LET i == inv[s]
        IN  (/\ i.status = "done"
             /\ i.w.fn = "g2"
             /\ Len(i.w.layers) = 1
             /\ Len(i.args) = 2
             /\ DOMAIN i.kwargs = {}
             /\ Resolved(i)
             /\ Markers(ResolvedObj(i)) = {})
              => /\ Len(i.tcalls) = 1
                 /\ i.result.err # "TypeError"
                 /\ i.result.kind = "return" =>
                       /\ i.result.bound["a"] = ArgVal(1)
                       /\ i.result.bound["b"] = ArgVal(2)
                       /\ i.result.bound["dep"] = DepVal(ResolvedObj(i))

\* the events of an invocation that are acquire, advance or release steps
ResourceEvents(i) ==
    {k \in 1..Len(i.trace) : i.trace[k].ev \in {"enter", "anext", "exit"}}

\* an async wrapper call that resolved an object exposing the synchronous
\* acquire/release pair and must inject it
AsyncOverSyncCase(i) ==
    /\ i.w.mode = "async"
    /\ Len(i.w.layers) = 1
    /\ Resolved(i)
    /\ IsSyncResource(ResolvedObj(i))
    /\ ~ArgsReachDep(i.w.fn, i.args)

\* C25 as stated: the async wrapper handles a resolved value that exposes
\* __enter__/__exit__ as a synchronous scoped resource, whatever else it
\* exposes: it is acquired before and released after the target call and the
\* acquired object is what the target receives.
C25_Original ==
    \A s \in Slots :
        LET i == inv[s]
        IN  AsyncOverSyncCase(i) =>
              /\ IsPrefix(EvNames(i.trace), <<"resolve", "enter", "call", "exit">>)
              /\ \A k \in 1..Len(i.tcalls) :
                    i.tcalls[k].kwargs["dep"] =
                        [t |-> "ctx", obj |-> ResolvedObj(i), n |-> 0]

\* a wrapper call that resolved a plain value while its caller passed the
\* injected parameter by keyword
PlainKeywordCase(i) ==
    /\ Len(i.w.layers) = 1
    /\ Resolved(i)
    /\ Markers(ResolvedObj(i)) = {}
    /\ ~ArgsReachDep(i.w.fn, i.args)
    /\ "dep" \in DOMAIN i.kwargs

\* C30: when the resolved value is plain and the caller passed the injected
\* parameter by keyword, the target is called with the caller's keywords
\* unchanged: it receives the caller's value, not the resolved one.
C30_CallerKeywordKept ==
    \A s \in Slots :
        LET i == inv[s]
        IN  PlainKeywordCase(i) =>
              /\ \A k \in 1..Len(i.tcalls) :
                    /\ i.tcalls[k].kwargs = i.kwargs
                    /\ i.tcalls[k].kwargs["dep"] = KwVal
              /\ i.status = "done" => Len(i.tcalls) = 1
              /\ i.result.kind = "return" =>
                    /\ ~i.result.none
                    /\ i.result.bound["dep"] = KwVal

\* an async call that returned the caller's keyword value
C30_Witness ==
    \E s \in Slots :
        /\ PlainKeywordCase(inv[s])
        /\ inv[s].w.mode = "async"
        /\ inv[s].result.kind = "return"
        /\ ~inv[s].result.none
        /\ inv[s].result.bound["dep"] = KwVal

\* the pair of markers each predicate looks for
Pair(pred) ==
    CASE pred = "is_context_manager" -> {"__enter__", "__exit__"}
      [] pred = "is_async_context_manager" -> {"__aenter__", "__aexit__"}
      [] pred = "is_async_generator" -> {"__aiter__", "__anext__"}

\* the markers a classified value exposes, as it was given
Exposed(v) == IF v = NoneObj THEN {} ELSE v.marks

\* C29: each classifier predicate answers true exactly when the value exposes
\* both markers of the predicate's pair, so false when one of the two is
\* missing and false for None; the answer depends on the markers only, and a
\* call leaves the registry, the resources and the value as they were.
C29_ClassifierByMarkers ==
    /\ probe.pred \in Predicates =>
          (probe.result <=> Pair(probe.pred) \subseteq Exposed(probe.obj))
    /\ probe.obj \in ProbeValues
    /\ registry = <<>>
    /\ nextId = 0
    /\ open = <<>>
    /\ lastOp.op = "init"

\* is_async_generator answered false for a value exposing __aiter__ only,
\* together with a complete pair of another kind
C29_Witness ==
    /\ probe.pred = "is_async_generator"
    /\ probe.obj # NoneObj
    /\ probe.obj.marks = {"__aiter__", "__enter__", "__exit__"}
    /\ ~probe.result

\* C28 as stated: Dependency.register takes every registration option of the
\* registry (a call is refused with TypeError only for a keyword the facade
\* does not declare), and after it the key is registered with the producer
\* the registry's own register would have stored for the options of the call.
C28_FacadeSameOptions ==
    lastOp.op = "Dependency.register" =>
        /\ lastOp.out # Error("TypeError")
        /\ lastOp.key \in DOMAIN registry
        /\ registry[lastOp.key] = Expected(lastOp.key, lastReg[lastOp.key].opts)

\* the step in which the wrapper of slot s resolves its key
BeginStep(s) ==
    /\ inv[s].status = "running"
    /\ inv[s].trace = <<>>
    /\ Len(inv'[s].trace) = 1

\* C23: wrapping a callable target succeeds whatever the registry holds and
\* resolves nothing; each call of the wrapped callable resolves its key against
\* the registry as it is at that call: with the key unregistered (never
\* registered, or removed by a clear) the call ends with the registry's
\* ValueError and without a target call, with the key registered the call gets
\* the value of the producer stored at that moment, built by this very call
\* unless the producer is an instance.
C23_ResolvedAtCall ==
    [][\A s \in Slots :
          /\ (lastOp'.op = "wrap" /\ inv'[s] # inv[s]) =>
                /\ registry' = registry
                /\ nextId' = nextId
                /\ IsCallable(inv'[s].w.fn) =>
                      inv'[s].status = "wrapped" /\ inv'[s].trace = <<>>
          /\ BeginStep(s) =>
                LET key == inv[s].w.layers[1].key
                    ev == inv'[s].trace[1]
                IN  /\ ev.ev = "resolve"
                    /\ key \notin DOMAIN registry =>
                          /\ inv'[s].status = "done"
                          /\ inv'[s].result = Raise("ValueError", "-")
                          /\ inv'[s].tcalls = <<>>
                    /\ key \in DOMAIN registry =>
                          /\ inv'[s].result # Raise("ValueError", "-")
                          /\ ev.how = "ok" =>
                                /\ ev.obj.src = registry[key].src
                                /\ registry[key].kind # "instance" =>
                                      ev.obj.id = nextId + 1 /\ nextId' = nextId + 1
                                /\ registry[key].kind = "instance" =>
                                      ev.obj = InstanceObj(registry[key].src)]_vars

\* a call of a wrapped callable that failed with ValueError after a clear
\* removed its key, objects having been produced before
C23_Witness ==
    \E s \in Slots :
        /\ inv[s].entry = "inject"
        /\ IsCallable(inv[s].w.fn)
        /\ inv[s].status = "done"
        /\ inv[s].result = Raise("ValueError", "-")
        /\ lastReg["K1"].prior
        /\ ~lastReg["K1"].registered
        /\ nextId > 0

ParamRank(fn, p) ==
    Cardinality({j \in DOMAIN Params(fn) :
        /\ Params(fn)[j].kind = POK
        /\ \E m \in DOMAIN Params(fn) : Params(fn)[m].name = p /\ j <= m})

\* the caller's positional arguments reach parameter p of the declared signature
Reaches(fn, p, args) ==
    /\ \E m \in DOMAIN Params(fn) : Params(fn)[m].name = p /\ Params(fn)[m].kind = POK
    /\ Len(args) >= ParamRank(fn, p)

\* the events of layer l of an invocation
ResolvesOf(i, l) ==
    {k \in 1..Len(i.trace) : i.trace[k].ev = "resolve" /\ i.trace[k].layer = l}

AcquiresOf(i, l) ==
    {k \in 1..Len(i.trace) : i.trace[k].ev = "enter" /\ i.trace[k].layer = l}

\* the object layer l resolved
LayerObj(i, l) == i.trace[CHOOSE k \in ResolvesOf(i, l) : TRUE].obj

\* the value layer l has to put into its parameter when the caller's
\* positional arguments do not reach it
LayerValue(i, l) ==
    LET o == LayerObj(i, l)
        scoped == \/ i.w.mode = "sync" /\ IsSyncResource(o)
                  \/ i.w.mode = "async" /\ IsAsyncResource(o)
    IN  IF scoped THEN [t |-> "ctx", obj |-> o, n |-> 0]
        ELSE IF i.w.layers[l].param \in DOMAIN i.kwargs THEN KwVal
        ELSE [t |-> "dep", obj |-> o, n |-> 0]

\* C21: in a target wrapped once for each of two parameters, in either order,
\* every layer resolves at most once and acquires at most once, the target is
\* called at most once and with the caller's positional arguments, and each of
\* the two parameters reaches the target either from the caller (when the
\* caller's positional arguments reach its declared position: no layer adds a
\* keyword for it) or as the value its own layer injects, never both.
C21_ComposedInjection ==
    \A s \in Slots :
        LET i == inv[s]
        IN  Len(i.w.layers) = 2 =>
              /\ \A l \in 1..2 :
                    /\ Cardinality(ResolvesOf(i, l)) <= 1
                    /\ Cardinality(AcquiresOf(i, l)) <= 1
              /\ Len(i.tcalls) <= 1
              /\ \A k \in 1..Len(i.tcalls) :
                    /\ i.tcalls[k].args = i.args
                    /\ \A l \in 1..2 :
                          LET p == i.w.layers[l].param
                          IN  IF Reaches(i.w.fn, p, i.args)
                              THEN p \notin DOMAIN i.tcalls[k].kwargs
                              ELSE /\ Cardinality(ResolvesOf(i, l)) = 1
                                   /\ p \in DOMAIN i.tcalls[k].kwargs
                                   /\ i.tcalls[k].kwargs[p] = LayerValue(i, l)
              /\ (i.result.kind = "return" /\ ~i.result.none) =>
                    \A l \in 1..2 :
                        LET p == i.w.layers[l].param
                        IN  i.result.bound[p] =
                              IF Reaches(i.w.fn, p, i.args)
                              THEN ArgVal(ParamRank(i.w.fn, p))
                              ELSE LayerValue(i, l)

\* a call through wrappers composed in the order other than inject's, whose
\* caller covered dep1 positionally: dep2 was injected from its scope
C21_Witness ==
    \E s \in Slots :
        /\ Len(inv[s].w.layers) = 2
        /\ inv[s].w.layers[1].param = "dep2"
        /\ Len(inv[s].args) = 2
        /\ inv[s].status = "done"
        /\ inv[s].result.kind = "return"
        /\ ~inv[s].result.none
        /\ inv[s].result.bound["dep1"] = ArgVal(2)
        /\ inv[s].result.bound["dep2"].t = "ctx"

\* the objects two different invocations both acquired
SharedBy(s, t) == AcquiredBy(inv[s]) \cap AcquiredBy(inv[t])

\* C26 as stated: whatever the producer, a resource object acquired by one
\* wrapped invocation is never acquired by another one, running at the same
\* time or after it.
C26_Original ==
    \A s, t \in Slots : s # t => SharedBy(s, t) = {}

\* C26 (amended): a resource object built by a producer call (factory-style
\* registrations) is acquired only by the invocation whose resolve built it,
\* and is held at most once at a time; a resource registered as an instance is
\* the same object in every invocation, each of which acquires it, also while
\* another one holds it.
C26_ProducedNotShared ==
    /\ \A s, t \in Slots : s # t => \A o \in SharedBy(s, t) : o.id = 0
    /\ \A o \in DOMAIN open : o.id > 0 => Count(open, o) = 1
    /\ \A s \in Slots :
          \A o \in AcquiredBy(inv[s]) :
              o.id > 0 => Cardinality({k \in 1..Len(inv[s].trace) :
                              /\ inv[s].trace[k].ev \in {"enter", "anext"}
                              /\ inv[s].trace[k].obj = o}) = 1

\* two calls suspended in their targets at the same time, each holding the
\* scoped resource its own resolve built
C26_Witness ==
    /\ inv["A"].status = "running"
    /\ inv["B"].status = "running"
    /\ AcquiredBy(inv["A"]) = {[src |-> "acmf", id |-> 1]}
    /\ AcquiredBy(inv["B"]) = {[src |-> "acmf", id |-> 2]}
    /\ Count(open, [src |-> "acmf", id |-> 1]) = 1
    /\ Count(open, [src |-> "acmf", id |-> 2]) = 1

\* an async call that was cancelled while suspended in its target
CancelledCase(i) ==
    /\ i.w.mode = "async"
    /\ \E k \in 1..Len(i.trace) :
          i.trace[k].ev = "call" /\ i.trace[k].exc = "CancelledError"

\* C27 as stated: when an async call is cancelled while suspended in its
\* target, every resource it acquired (asynchronous scoped resource entered,
\* asynchronous multi-value resource advanced) has been released or finalized
\* when the call ends.
C27_CancelReleases ==
    \A s \in Slots :
        (CancelledCase(inv[s]) /\ inv[s].status = "done") =>
            \A o \in AcquiredBy(inv[s]) : ReleasesOf(inv[s], o) = 1

\* the caller's keywords other than the injected parameter
OtherKw(kw) == [x \in DOMAIN kw \ {"dep"} |-> kw[x]]

\* the call of the target returned and no release step raised afterwards
TargetReturned(i) ==
    /\ i.status = "done"
    /\ Len(i.tcalls) = 1
    /\ \E k \in 1..Len(i.trace) : i.trace[k].ev = "call" /\ i.trace[k].how = "return"
    /\ \A k \in 1..Len(i.trace) : i.trace[k].ev = "exit" => i.trace[k].how # "raise"

\* C31: a wrapper changes nothing but the injected parameter: every call of the
\* target gets the caller's positional arguments, in order, and the caller's
\* keywords other than the injected one unchanged; when the target returned
\* (and no release step raised), the wrapper returns what the target returned:
\* each ordinary parameter as the caller gave it, by position or by keyword,
\* and the injected parameter as the target received it; sync and async alike.
C31_OnlyInjectedChanges ==
    \A s \in Slots :
        LET i == inv[s]
        IN  Len(i.w.layers) = 1 =>
              /\ \A k \in 1..Len(i.tcalls) :
                    /\ i.tcalls[k].args = i.args
                    /\ OtherKw(i.tcalls[k].kwargs) = OtherKw(i.kwargs)
              /\ TargetReturned(i) =>
                    /\ i.result.kind = "return"
                    /\ ~i.result.none
                    /\ DOMAIN i.result.bound = ParamNames(i.w.fn)
                    /\ \A p \in ParamNames(i.w.fn) :
                          i.result.bound[p] =
                              IF Reaches(i.w.fn, p, i.args)
                              THEN i.args[ParamRank(i.w.fn, p)]
                              ELSE IF p = "dep" THEN i.tcalls[1].kwargs[p]
                              ELSE i.kwargs[p]

\* an async call that returned with a caller's positional argument, a caller's
\* keyword for an ordinary parameter, and a dependency injected from its scope
C31_Witness ==
    \E s \in Slots :
        /\ TargetReturned(inv[s])
        /\ inv[s].w.fn = "g2"
        /\ inv[s].w.mode = "async"
        /\ inv[s].args = <<ArgVal(1)>>
        /\ DOMAIN inv[s].kwargs = {"b"}
        /\ inv[s].result.bound["a"] = ArgVal(1)
        /\ inv[s].result.bound["b"] = KwVal
        /\ inv[s].result.bound["dep"].t = "ctx"

\* an async wrapper call that resolved an object exposing both the
\* asynchronous acquire/release pair and the asynchronous iteration pair, and
\* must inject it
HybridCase(i) ==
    /\ i.w.mode = "async"
    /\ Len(i.w.layers) = 1
    /\ Resolved(i)
    /\ IsAsyncResource(ResolvedObj(i))
    /\ IsMultiValue(ResolvedObj(i))
    /\ ~ArgsReachDep(i.w.fn, i.args)

\* C32: in the async wrapper a resolved value that exposes both
\* __aenter__/__aexit__ and __aiter__/__anext__ is handled as an asynchronous
\* scoped resource: it is acquired, the target gets what acquiring it returned,
\* it is released once the acquire step succeeded, and it is never advanced as
\* a sequence.
C32_HybridIsScoped ==
    \A s \in Slots :
        LET i == inv[s]
        IN  HybridCase(i) =>
              /\ IsPrefix(EvNames(i.trace), <<"resolve", "enter", "call", "exit">>)
              /\ \A k \in 1..Len(i.trace) : i.trace[k].ev # "anext"
              /\ \A k \in 2..Len(i.trace) :
                    i.trace[k].ev \in {"enter", "exit"} => i.trace[k].obj = ResolvedObj(i)
              /\ \A k \in 1..Len(i.tcalls) :
                    i.tcalls[k].kwargs["dep"] =
                        [t |-> "ctx", obj |-> ResolvedObj(i), n |-> 0]
              /\ i.status = "done" =>
                    /\ Len(i.trace) >= 2
                    /\ i.trace[2].how = "ok" =>
                          /\ Len(i.tcalls) = 1
                          /\ ReleasesOf(i, ResolvedObj(i)) = 1
                          /\ Count(open, ResolvedObj(i)) = 0

\* an async call that acquired and released an object of the class exposing
\* both pairs of markers, and returned what acquiring it gave
C32_Witness ==
    \E s \in Slots :
        /\ HybridCase(inv[s])
        /\ ResolvedObj(inv[s]).src = "hybf"
        /\ inv[s].status = "done"
        /\ Len(inv[s].trace) = 4
        /\ inv[s].result.kind = "return"
        /\ ~inv[s].result.none
        /\ inv[s].result.bound["dep"].t = "ctx"

\* C33: register(k, ...) and resolve(k) leave every other key as it was,
\* registered with the same producer or unregistered, so that resolve(j) for
\* j # k has the same outcomes after the operation as before it; resolve
\* changes neither the set of registered keys nor any producer.
C33_OtherKeysUntouched ==
    [][lastOp'.op \in {"register", "resolve"} =>
          /\ \A j \in Keys \ {lastOp'.key} :
                /\ (j \in DOMAIN registry') = (j \in DOMAIN registry)
                /\ j \in DOMAIN registry => registry'[j] = registry[j]
                /\ \A id \in 1..MaxObjs :
                      ResolveOutcomes(registry', j, id) = ResolveOutcomes(registry, j, id)
          /\ lastOp'.op = "resolve" => registry' = registry]_vars

\* K1 has just been registered again, now with a factory, while K2 holds a
\* scoped-resource factory
C33_Witness ==
    /\ lastOp.op = "register"
    /\ lastOp.key = "K1"
    /\ lastReg["K1"].prior
    /\ registry["K1"] = CallableProducer("f1")
    /\ "K2" \in DOMAIN registry
    /\ registry["K2"] = CallableProducer("cmf")

\* a wrapper call that resolved a resource its wrapper manages (a scoped
\* resource of the wrapper's kind, or an asynchronous multi-value resource in
\* the async wrapper) while its caller passed the injected parameter by keyword
KeywordResourceCase(i) ==
    /\ Len(i.w.layers) = 1
    /\ Resolved(i)
    /\ ~ArgsReachDep(i.w.fn, i.args)
    /\ "dep" \in DOMAIN i.kwargs
    /\ \/ i.w.mode = "sync" /\ IsSyncResource(ResolvedObj(i))
       \/ i.w.mode = "async" /\ IsAsyncResource(ResolvedObj(i))
       \/ i.w.mode = "async" /\ IsMultiValue(ResolvedObj(i))

\* C34 as stated: when the resolved value is a scoped resource (sync, async or
\* async multi-value) and the caller passed the injected parameter by keyword,
\* the wrapper still acquires the resource, the target gets the acquired object
\* in place of the caller's value, and the resource is released when the call
\* has ended.
C34_KeywordReplaced ==
    \A s \in Slots :
        LET i == inv[s]
        IN  KeywordResourceCase(i) =>
              /\ \A k \in 1..Len(i.tcalls) :
                    /\ i.tcalls[k].kwargs["dep"] # KwVal
                    /\ i.tcalls[k].kwargs["dep"].obj = ResolvedObj(i)
                    /\ ResolvedObj(i) \in AcquiredBy(i)
              /\ i.status = "done" =>
                    \A o \in AcquiredBy(i) :
                        ReleasesOf(i, o) = 1 /\ Count(open, o) = 0

\* a step of the wrapper of slot s after its resolve
LaterStep(s) ==
    /\ inv[s].status = "running"
    /\ inv[s].trace # <<>>
    /\ inv'[s] # inv[s]

\* C35: every wrapper invocation resolves its key exactly once, as its first
\* step and whatever the caller's arguments are: the producer is called once
\* (at most one object is built, in the resolving step, none later), an
\* unregistered key ends the call with the registry's ValueError also when the
\* caller's positional arguments cover the parameter, and when they cover it
\* the produced object is neither acquired, advanced nor released: the only
\* events of the call are the resolve and the target call.
C35_ResolveOnceFirst ==
    [][\A s \in Slots :
          Len(inv'[s].w.layers) = 1 =>
            /\ BeginStep(s) =>
                  LET key == inv[s].w.layers[1].key
                      ev == inv'[s].trace[1]
                  IN  /\ ev.ev = "resolve"
                      /\ nextId' \in {nextId, nextId + 1}
                      /\ key \notin DOMAIN registry =>
                            /\ inv'[s].status = "done"
                            /\ inv'[s].result = Raise("ValueError", "-")
                      /\ (key \in DOMAIN registry /\ registry[key].kind # "instance"
                            /\ ev.how = "ok") => nextId' = nextId + 1
            /\ LaterStep(s) =>
                  /\ nextId' = nextId
                  /\ inv'[s].trace[Len(inv'[s].trace)].ev # "resolve"
            /\ ArgsReachDep(inv'[s].w.fn, inv'[s].args) =>
                  /\ \A k \in 1..Len(inv'[s].trace) :
                        inv'[s].trace[k].ev \in {"resolve", "call"}
                  /\ Len(inv'[s].trace) >= 1 => inv'[s].trace[1].ev = "resolve"
                  /\ open' = open]_vars

\* a sync call whose caller covered the parameter positionally: the scoped
\* resource the producer built was handed to nobody and never entered
C35_Witness ==
    \E s \in Slots :
        /\ inv[s].w.mode = "sync"
        /\ Len(inv[s].w.layers) = 1
        /\ ArgsReachDep(inv[s].w.fn, inv[s].args)
        /\ Resolved(inv[s])
        /\ ResolvedObj(inv[s]) = [src |-> "cmf", id |-> 1]
        /\ inv[s].status = "done"
        /\ Len(inv[s].trace) = 2
        /\ inv[s].result.kind = "return"
        /\ inv[s].result.bound["dep"] = ArgVal(2)
        /\ open = <<>>

\* an async wrapper call whose resolved multi-value resource ended before
\* yielding a value
ExhaustedCase(i) ==
    /\ i.w.mode = "async"
    /\ Len(i.w.layers) = 1
    /\ Resolved(i)
    /\ Len(i.trace) >= 2
    /\ i.trace[2].ev = "anext"
    /\ i.trace[2].how = "stop"

\* C36: if the resolved asynchronous multi-value resource is exhausted without
\* yielding a value, the async wrapper ends there: the target is not called,
\* and the caller gets None and no error.
C36_ExhaustedReturnsNone ==
    \A s \in Slots :
        LET i == inv[s]
        IN  ExhaustedCase(i) =>
              /\ i.status = "done"
              /\ Len(i.trace) = 2
              /\ i.tcalls = <<>>
              /\ i.result.kind = "return"
              /\ i.result.none
              /\ i.result.err = "-"

\* a call with a keyword for the injected parameter that ended on the
\* exhausted sequence
C36_Witness ==
    \E s \in Slots :
        /\ ExhaustedCase(inv[s])
        /\ ResolvedObj(inv[s]).src = "agf"
        /\ "dep" \in DOMAIN inv[s].kwargs
        /\ inv[s].result = ReturnNone

\* a sync wrapper call that resolved an object exposing asynchronous markers
\* only (an asynchronous scoped resource or an asynchronous multi-value
\* resource) and must inject it
SyncOverAsyncCase(i) ==
    /\ i.w.mode = "sync"
    /\ Len(i.w.layers) = 1
    /\ Resolved(i)
    /\ ~IsSyncResource(ResolvedObj(i))
    /\ IsAsyncResource(ResolvedObj(i)) \/ IsMultiValue(ResolvedObj(i))
    /\ ~ArgsReachDep(i.w.fn, i.args)

\* C39: the sync wrapper recognises synchronous scoped resources only: a
\* resolved value exposing only asynchronous markers is injected as it is,
\* like a plain value (a caller's keyword for the parameter is kept), and the
\* wrapper performs no acquire, no advance and no release on it.
C39_SyncIgnoresAsync ==
    \A s \in Slots :
        LET i == inv[s]
        IN  SyncOverAsyncCase(i) =>
              /\ ResourceEvents(i) = {}
              /\ IsPrefix(EvNames(i.trace), <<"resolve", "call">>)
              /\ Count(open, ResolvedObj(i)) = 0
              /\ \A k \in 1..Len(i.tcalls) :
                    i.tcalls[k].kwargs["dep"] =
                        IF "dep" \in DOMAIN i.kwargs THEN KwVal
                        ELSE [t |-> "dep", obj |-> ResolvedObj(i), n |-> 0]
              /\ i.status = "done" => Len(i.tcalls) = 1

\* a sync call that returned the asynchronous multi-value object itself
C39_Witness ==
    \E s \in Slots :
        /\ SyncOverAsyncCase(inv[s])
        /\ ResolvedObj(inv[s]).src = "agf"
        /\ inv[s].status = "done"
        /\ inv[s].result.kind = "return"
        /\ ~inv[s].result.none
        /\ inv[s].result.bound["dep"] =
              [t |-> "dep", obj |-> ResolvedObj(inv[s]), n |-> 0]

\* an async wrapper call that is suspended after it resolved its dependency
Suspended(i) ==
    /\ i.status = "running"
    /\ i.w.mode = "async"
    /\ Len(i.w.layers) = 1
    /\ Resolved(i)

LayerOf(i, p) == CHOOSE l \in DOMAIN i.w.layers : i.w.layers[l].param = p

\* the events of an invocation in which layer l acquired, or released
EntersOk(i, l) ==
    {k \in 1..Len(i.trace) :
        i.trace[k].ev = "enter" /\ i.trace[k].layer = l /\ i.trace[k].how = "ok"}

ExitsOf(i, l) ==
    {k \in 1..Len(i.trace) : i.trace[k].ev = "exit" /\ i.trace[k].layer = l}

\* the object a layer resolved is a scoped resource of the wrapper's kind
LayerScoped(i, l) ==
    \/ i.w.mode = "sync" /\ IsSyncResource(LayerObj(i, l))
    \/ i.w.mode = "async" /\ IsAsyncResource(LayerObj(i, l))

\* a call of h2 as inject wraps it, with both dependencies to be injected and
\* every dependency resolved so far a scoped resource
NestedCase(i) ==
    /\ i.w.fn = "h2"
    /\ i.w.layers = InjectLayers
    /\ ~Reaches(i.w.fn, "dep1", i.args)
    /\ ~Reaches(i.w.fn, "dep2", i.args)
    /\ \A l \in 1..2 : ResolvesOf(i, l) # {} /\ i.trace[CHOOSE k \in ResolvesOf(i, l) : TRUE].how = "ok"
                            => LayerScoped(i, l)

\* C37: when inject wraps a target with two scoped-resource parameters the
\* resources are nested: the resource of the later-declared parameter (dep2) is
\* acquired first and released last, the resource of the earlier-declared
\* parameter (dep1) is acquired second and released first, the target runs only
\* while both are acquired, and when the call has ended every resource that was
\* acquired has been released once.
C37_NestedScopes ==
    \A s \in Slots :
        LET i == inv[s]
            first == LayerOf(i, "dep1")
            last == LayerOf(i, "dep2")
        IN  NestedCase(i) =>
              /\ \A k \in EntersOk(i, first) : \E m \in EntersOk(i, last) : m < k
              /\ \A k \in ExitsOf(i, last) :
                    /\ EntersOk(i, last) # {}
                    /\ EntersOk(i, first) # {} => \E m \in ExitsOf(i, first) : m < k
              /\ \A k \in ExitsOf(i, first) : \E m \in EntersOk(i, first) : m < k
              /\ \A k \in 1..Len(i.trace) :
                    i.trace[k].ev = "call" =>
                        /\ \E m \in EntersOk(i, first) : m < k
                        /\ \E m \in EntersOk(i, last) : m < k
                        /\ \A m \in ExitsOf(i, first) \cup ExitsOf(i, last) : m > k
              /\ \A l \in 1..2 :
                    /\ Cardinality(EntersOk(i, l)) <= 1
                    /\ Cardinality(ExitsOf(i, l)) <= Cardinality(EntersOk(i, l))
                    /\ i.status = "done" =>
                          Cardinality(ExitsOf(i, l)) = Cardinality(EntersOk(i, l))

\* a sync call through inject's wrappers that acquired both resources, ran the
\* target and released both
C37_Witness ==
    \E s \in Slots :
        /\ NestedCase(inv[s])
        /\ inv[s].w.mode = "sync"
        /\ inv[s].status = "done"
        /\ EvNames(inv[s].trace) =
              <<"resolve", "enter", "resolve", "enter", "call", "exit", "exit">>
        /\ inv[s].trace[2].obj = InstanceObj("v2")
        /\ inv[s].trace[4].obj.src = "cmf"
        /\ inv[s].trace[6].obj.src = "cmf"
        /\ inv[s].trace[7].obj = InstanceObj("v2")
        /\ inv[s].result.kind = "return"

====
